---- MODULE Spec2Model ----
(***************************************************************************)
(* Model of pdfrenamer/main.py: rename() (directory walker and single-file *)
(* branch) and rename_file() (collision-avoiding rename).                  *)
(*                                                                         *)
(* Strings that are paths are modelled split on os.path.sep: a path is the *)
(* sequence of its components, so "./papers/x.pdf" is <<Dot, papers, x>>   *)
(* and "papers/" is <<papers, Empty>>.  Two path strings are equal exactly *)
(* when their component sequences are equal.  A component (a file name) is *)
(* the record [stem, k, ext] standing for stem + (" (k)" if k > 1) + ext.  *)
(* All paths are relative to the working directory.                        *)
(***************************************************************************)
EXTENDS Naturals, Sequences, FiniteSets, TLC

VARIABLES
    files,            \* the disk: file identity -> normalised path, or Gone
    dirs,             \* the disk: set of normalised paths that are directories
    answers,          \* what pdf2bib finds in each file (a function of its content)
    check_subfolders, \* config.get('check_subfolders')
    envFaults,        \* whether the environment may interfere (I/O errors, races)
    stack,            \* call stack of rename(): one frame per active call
    outcome,          \* what the outermost call did: state, return value, exception
    walk,             \* observation of the current outermost call
    lastRF,           \* observation of the last rename_file() call
    lastSF            \* observation of the last run of the single-file branch

vars == <<files, dirs, answers, check_subfolders, envFaults,
          stack, outcome, walk, lastRF, lastSF>>

-----------------------------------------------------------------------------
(* Bounds of the model *)

\* Files on disk, calls of rename() by the caller, faults of the environment
\* in one run, and calls of rename() when the environment may interfere
MaxFiles == 2
MaxCalls == 2
MaxFaults == 1
MaxFaultCalls == 1

-----------------------------------------------------------------------------
(* File names and path strings *)

Name(stem, k, ext) == [stem |-> stem, k |-> k, ext |-> ext]

Empty == Name("", 1, "")     \* the empty component: "a//b", "a/"
Dot   == Name(".", 1, "")    \* the component "."

papers == Name("papers", 1, "")
sub    == Name("sub", 1, "")
arch   == Name("arch", 1, ".pdf")     \* a directory whose name ends in .pdf

None == <<>>                 \* Python's None where a path string is expected
Gone == <<>>                 \* a file that no longer exists on disk

\* str.lower() on an extension
Lower(ext) == IF ext = ".PDF" THEN ".pdf" ELSE ext

\* f.lower().endswith('.pdf')
EndsWithPdf(f) == Lower(f.ext) = ".pdf"

\* s.endswith(os.path.sep)
EndsWithSep(p) == Len(p) >= 2 /\ p[Len(p)] = Empty

\* s + os.path.sep
AddSep(p) == Append(p, Empty)

\* target + f, for a target that ends with the separator and a name f
Join(target, f) == [target EXCEPT ![Len(target)] = f]

\* new_path + (f" ({i})" if i>1 else "") + ext, for a new_path whose last
\* component is a bare stem
WithSuffix(new_path, i, ext) ==
    [new_path EXCEPT ![Len(new_path)] = Name(@.stem, i, ext)]

\* os.path.splitext(filename)[-1]
SplitExt(p) == p[Len(p)].ext

Front(s) == SubSeq(s, 1, Len(s) - 1)

\* The parts pathlib keeps of a relative path: "." and empty components drop out
PureParts(p) == SelectSeq(p, LAMBDA c : c # Empty /\ c # Dot)

\* str(pathlib.Path(filename).parent)
PathParent(p) ==
    LET parts == PureParts(p)
    IN  IF Len(parts) <= 1 THEN <<Dot>> ELSE Front(parts)

-----------------------------------------------------------------------------
(* The filesystem *)

\* The kernel's path resolution: "." and repeated separators are skipped
Resolve(p) == SelectSeq(p, LAMBDA c : c # Empty /\ c # Dot)

IsDirOn(ds, p) == Resolve(p) \in ds

FileAt(fs, p) == {id \in DOMAIN fs : fs[id] # Gone /\ fs[id] = Resolve(p)}

IsFileOn(fs, p) == p # <<>> /\ p[Len(p)] # Empty /\ FileAt(fs, p) # {}

\* os.path.exists(p)
Exists(fs, ds, p) == IsDirOn(ds, p) \/ IsFileOn(fs, p)

\* os.rename(old, new): the file moves; a file already at new is replaced
OsRename(fs, old, new) ==
    LET id == CHOOSE x \in FileAt(fs, old) : TRUE
    IN  [x \in DOMAIN fs |->
            IF x = id THEN Resolve(new)
            ELSE IF fs[x] = Resolve(new) THEN Gone
            ELSE fs[x]]

\* Names of the children of directory d
ChildFiles(fs, d) ==
    {fs[id][Len(fs[id])] : id \in {x \in DOMAIN fs : fs[x] # Gone /\ Front(fs[x]) = d}}
ChildDirs(ds, d) == {p[Len(p)] : p \in {q \in ds : q # <<>> /\ Front(q) = d}}

\* Every order in which the names of S can be listed
RECURSIVE Perms(_)
Perms(S) ==
    IF S = {} THEN {<<>>}
    ELSE UNION { {<<a>> \o p : p \in Perms(S \ {a})} : a \in S }

\* os.listdir(target): every child, files and directories, in arbitrary
\* order; the set of the lists it may return
ListDir(fs, ds, target) ==
    Perms(ChildFiles(fs, Resolve(target)) \cup ChildDirs(ds, Resolve(target)))

\* [ f.path for f in os.scandir(target) if f.is_dir() ], in arbitrary order;
\* the set of the lists it may produce
ScanDirs(fs, ds, target) ==
    { [j \in 1..Len(names) |-> Join(target, names[j])] :
         names \in Perms(ChildDirs(ds, Resolve(target))) }

-----------------------------------------------------------------------------
(* rename_file(old_path, new_path, ext) *)

\* A loop that takes the first candidate without probing the disk
FirstFree_NoProbe(fs, ds, new_path, ext, i) == i

\* The while loop: the first i >= 1 whose candidate path does not exist
RECURSIVE FirstFree(_, _, _, _, _)
FirstFree(fs, ds, new_path, ext, i) ==
    IF Exists(fs, ds, WithSuffix(new_path, i, ext))
    THEN FirstFree(fs, ds, new_path, ext, i + 1)
    ELSE i

\* fault = "oserror": os.rename raises and changes nothing
rename_file(fs, ds, old_path, new_path, ext, fault) ==
    IF ~Exists(fs, ds, old_path)
    THEN [exc |-> "ValueError", ret |-> None, fs |-> fs, renames |-> 0]
    ELSE LET i == FirstFree(fs, ds, new_path, ext, 1)
             New_path == WithSuffix(new_path, i, ext)
         IN  IF fault = "oserror"
             THEN [exc |-> "OSError", ret |-> None, fs |-> fs, renames |-> 0]
             ELSE [exc |-> "", ret |-> New_path,
                   fs |-> OsRename(fs, old_path, New_path), renames |-> 1]

-----------------------------------------------------------------------------
(* Values rename() returns: a dictionary, a list, or None *)

NoDict == [path_original |-> None, path_new |-> None, identifier |-> "None",
           identifier_type |-> "None", metadata |-> "None"]

DictV(r) == [kind |-> "dict", d |-> r, items |-> <<>>]
ListV(s) == [kind |-> "list", d |-> NoDict, items |-> s]
NoneV    == [kind |-> "None", d |-> NoDict, items |-> <<>>]

\* pdf2bib.pdf2bib_singlefile(filename): what the resolver finds in a file
Raises    == [raises |-> TRUE, identifier |-> "None", identifier_type |-> "None",
              metadata |-> "None"]
NotFound  == [raises |-> FALSE, identifier |-> "None", identifier_type |-> "None",
              metadata |-> "None"]
NoBibtex  == [raises |-> FALSE, identifier |-> "10.1000/a", identifier_type |-> "DOI",
              metadata |-> "None"]
Found(title) == [raises |-> FALSE, identifier |-> "10.1000/a", identifier_type |-> "DOI",
                 metadata |-> title]

pdf2bib_singlefile(fs, ans, filename) ==
    ans[CHOOSE id \in FileAt(fs, filename) : TRUE]

\* build_filename(metadata, format, tags) for the format "{T}": the title
build_filename(metadata) == Name(metadata, 1, "")

\* Python truthiness of result['metadata'], result['identifier']
Truthy(v) == v # "None"

NoRF == [called |-> FALSE, old |-> None, new_path |-> None, ext |-> "",
         exc |-> "", ret |-> None, renames |-> 0]

\* A test of the identifier alone
HasBibtex_IdentifierOnly(result) == Truthy(result.identifier)

\* Line 129: if result['metadata'] and result['identifier']
HasBibtex(result) == Truthy(result.metadata) /\ Truthy(result.identifier)

\* A handler that leaves the intended name in path_new when rename_file raised
PathNewAfter_KeepsIntended(r, NewPathWithExt) ==
    IF r.exc = "" THEN r.ret ELSE NewPathWithExt

\* Lines 146-154: path_new is what rename_file returned, or None when it raised
PathNewAfter(r, NewPathWithExt) == IF r.exc = "" THEN r.ret ELSE None

\* The single-file branch of rename(): lines 113-165.
\* fault = "vanish": another process removes the file after line 115 and
\* before rename_file looks at it.
rename_single(fs, ds, ans, filename, fault) ==
    LET same(f) == [exc |-> "", value |-> NoneV, fs |-> f, resolved |-> {},
                    rf |-> NoRF, pre |-> f, faulted |-> FALSE, res |-> NotFound]
    IN
    IF ~Exists(fs, ds, filename) THEN same(fs)
    ELSE IF ~EndsWithPdf(filename[Len(filename)]) THEN same(fs)
    ELSE
    LET id  == CHOOSE x \in FileAt(fs, filename) : TRUE
        res == pdf2bib_singlefile(fs, ans, filename)
        result == [path_original |-> filename, path_new |-> None,
                   identifier |-> res.identifier,
                   identifier_type |-> res.identifier_type,
                   metadata |-> res.metadata]
    IN
    IF res.raises
    THEN \* line 163: result was never assigned
         [same(fs) EXCEPT !.exc = "UnboundLocalError", !.resolved = {id}, !.res = res]
    ELSE IF HasBibtex(result)
    THEN LET NewName == build_filename(result.metadata)
             ext == Lower(SplitExt(filename))
             directory == PathParent(filename)
             NewPath == directory \o <<NewName>>
             NewPathWithExt == WithSuffix(NewPath, 1, ext)
         IN  IF filename = NewPathWithExt
             THEN [same(fs) EXCEPT !.value = DictV([result EXCEPT !.path_new = NewPathWithExt]),
                                   !.resolved = {id}, !.res = res]
             ELSE LET fs1 == IF fault = "vanish" THEN [fs EXCEPT ![id] = Gone] ELSE fs
                      r == rename_file(fs1, ds, filename, NewPath, ext, fault)
                  IN  [exc |-> "",
                       value |-> DictV([result EXCEPT !.path_new =
                                           PathNewAfter(r, NewPathWithExt)]),
                       fs |-> r.fs, resolved |-> {id}, res |-> res,
                       rf |-> [called |-> TRUE, old |-> filename, new_path |-> NewPath,
                               ext |-> ext, exc |-> r.exc, ret |-> r.ret,
                               renames |-> r.renames],
                       pre |-> fs1, faulted |-> fault # "none"]
    ELSE [same(fs) EXCEPT !.value = DictV(result), !.resolved = {id}, !.res = res]

-----------------------------------------------------------------------------
(* The inputs: what is on disk, what the resolver finds, how rename() is called *)

\* Files that may be on disk initially; a file's identity is its index here
Catalog == <<
    <<papers, Name("y", 1, ".PDF")>>,
    <<papers, Name("base", 1, ".pdf")>>,
    <<papers, Name("base", 2, ".pdf")>>,
    <<papers, sub, Name("x", 1, ".pdf")>>,
    <<papers, arch, Name("x", 1, ".pdf")>>,
    <<papers, Name("notes", 1, ".txt")>> >>

\* The title of the publication each file holds
Title(id) == IF Front(Catalog[id]) = <<papers>> THEN "base" ELSE "alt"

Trees == { {<<>>, <<papers>>} \cup D : D \in SUBSET {<<papers, sub>>, <<papers, arch>>} }

\* What the resolver may find in file id; it is not run on files that are not
\* pdf.  Files in subdirectories either have their title found or make the
\* resolver raise; the two ways of finding nothing are tried on the files of
\* papers/
Outcomes(id) ==
    IF ~EndsWithPdf(Catalog[id][Len(Catalog[id])]) THEN {NotFound}
    ELSE IF Front(Catalog[id]) = <<papers>>
         THEN {Raises, NotFound, NoBibtex, Found(Title(id))}
         ELSE {Raises, Found(Title(id))}

\* The ways the caller writes the target: a directory written plainly or with
\* a leading "./", a file, a path that does not exist.  A directory written
\* with a trailing separator is walked exactly as the plain one (line 75 adds
\* the separator to the other)
Targets == { <<papers>>, <<Dot, papers>>,
             <<papers, Name("y", 1, ".PDF")>>, <<Name("nowhere", 1, "")>> }

NoSF(fs) == [ran |-> FALSE, filename |-> None, res |-> NotFound, exc |-> "",
             value |-> NoneV, rf |-> NoRF, pre |-> fs, post |-> fs]

\* What the walk has seen of a directory it has not listed yet
NotListed == [seen |-> FALSE, pdf_files |-> <<>>, subfolders |-> <<>>]

Frame(target) == [pc |-> "start", target |-> target, pdf_files |-> <<>>,
                  subfolders |-> <<>>, i |-> 1, files_processed |-> <<>>,
                  bound |-> FALSE]

Init ==
    /\ \E present \in SUBSET (1..Len(Catalog)) :
         /\ Cardinality(present) <= MaxFiles
         /\ files = [id \in present |-> Catalog[id]]
         /\ dirs \in {t \in Trees : \A id \in present : Front(Catalog[id]) \in t}
         /\ answers \in {a \in [present -> UNION {Outcomes(id) : id \in present}] :
                           \A id \in present : a[id] \in Outcomes(id)}
    /\ check_subfolders \in BOOLEAN
    /\ envFaults = FALSE
    /\ stack = <<>>
    /\ outcome = [state |-> "idle", value |-> NoneV, exc |-> ""]
    /\ walk = [calls |-> 0, target |-> None, fs0 |-> files, renames |-> 0,
               resolved |-> {}, rcalls |-> 0, faults |-> 0,
               indexed |-> {}, before |-> {},
               moves |-> [id \in DOMAIN files |-> 0],
               listed |-> [d \in dirs |-> NotListed]]
    /\ lastRF = NoRF @@ [pre |-> files, post |-> files]
    /\ lastSF = NoSF(files)

Top == stack[Len(stack)]
Running == outcome.state = "running"

Disk == <<files, dirs, answers, check_subfolders, envFaults>>

FaultChoices ==
    IF envFaults /\ walk.faults < MaxFaults THEN {"none", "oserror", "vanish"}
    ELSE {"none"}

-----------------------------------------------------------------------------
(* rename(target): the steps of a call *)

\* The caller receives value v from the call it made: line 93 appends it,
\* line 104 extends files_processed with it.
Deliver(stk, v) ==
    IF stk = <<>>
    THEN [stack |-> <<>>, outcome |-> [state |-> "returned", value |-> v, exc |-> ""]]
    ELSE LET caller == stk[Len(stk)]
             rest == Front(stk)
             run == [state |-> "running", value |-> NoneV, exc |-> ""]
         IN  IF caller.pc = "files"
             THEN LET done == caller.i + 1 > Len(caller.pdf_files)
                  IN  [stack |-> Append(rest,
                          [caller EXCEPT !.files_processed = Append(@, v),
                                         !.i = IF done THEN 1 ELSE @ + 1,
                                         !.pc = IF done THEN "subs" ELSE "files"]),
                       outcome |-> run]
             ELSE IF ~caller.bound
             THEN [stack |-> <<>>,
                   outcome |-> [state |-> "raised", value |-> NoneV,
                                exc |-> "UnboundLocalError"]]
             ELSE IF v.kind # "list"
             THEN [stack |-> <<>>,
                   outcome |-> [state |-> "raised", value |-> NoneV, exc |-> "TypeError"]]
             ELSE [stack |-> Append(rest,
                      [caller EXCEPT !.files_processed = @ \o v.items, !.i = @ + 1]),
                   outcome |-> run]

RaiseOut(exc) == [stack |-> <<>>,
                  outcome |-> [state |-> "raised", value |-> NoneV, exc |-> exc]]

\* The caller invokes rename(target)
Call(t) ==
    /\ ~Running
    /\ walk.calls < (IF envFaults THEN MaxFaultCalls ELSE MaxCalls)
    /\ walk.target \in {None, t}
    /\ stack' = <<Frame(t)>>
    /\ outcome' = [state |-> "running", value |-> NoneV, exc |-> ""]
    /\ walk' = [calls |-> walk.calls + 1, target |-> t, fs0 |-> files, renames |-> 0,
                resolved |-> {}, rcalls |-> 0, faults |-> walk.faults,
                indexed |-> {}, before |-> walk.indexed,
                moves |-> [id \in DOMAIN files |-> 0],
                listed |-> [d \in dirs |-> NotListed]]
    /\ lastRF' = NoRF @@ [pre |-> files, post |-> files]
    /\ lastSF' = NoSF(files)
    /\ UNCHANGED Disk

\* Lines 61-63: the target does not exist
NoSuchPath ==
    /\ Running /\ Top.pc = "start"
    /\ ~Exists(files, dirs, Top.target)
    /\ LET d == Deliver(Front(stack), NoneV)
       IN  stack' = d.stack /\ outcome' = d.outcome
    /\ UNCHANGED <<Disk, walk, lastRF, lastSF>>

\* Lines 72-87: the target is a directory; list it
EnterDir ==
    /\ Running /\ Top.pc = "start"
    /\ IsDirOn(dirs, Top.target)
    /\ LET target == IF EndsWithSep(Top.target) THEN Top.target ELSE AddSep(Top.target)
       IN  \E listing \in ListDir(files, dirs, target),
              subfolders \in ScanDirs(files, dirs, target) :
             LET pdf_files == SelectSeq(listing, EndsWithPdf)
                 numb_files == Len(pdf_files)
                 d == Resolve(target)
             IN  /\ stack' = [stack EXCEPT ![Len(stack)] =
                        [pc |-> IF numb_files = 0 THEN "subs" ELSE "files",
                         target |-> target, pdf_files |-> pdf_files,
                         subfolders |-> subfolders, i |-> 1,
                         files_processed |-> <<>>, bound |-> numb_files # 0]]
                 /\ walk' = IF walk.listed[d].seen THEN walk
                            ELSE [walk EXCEPT !.listed[d] =
                                     [seen |-> TRUE, pdf_files |-> pdf_files,
                                      subfolders |-> subfolders]]
    /\ UNCHANGED <<Disk, outcome, lastRF, lastSF>>

\* What a run of the single-file branch leaves behind
Observe(filename, r, calls) ==
    /\ files' = r.fs
    /\ walk' = [walk EXCEPT !.renames = @ + r.rf.renames,
                            !.rcalls = @ + calls,
                            !.resolved = @ \cup r.resolved,
                            !.faults = @ + (IF r.faulted THEN 1 ELSE 0),
                            !.indexed = @ \cup (IF r.rf.renames = 1 /\ r.rf.ret[Len(r.rf.ret)].k >= 2
                                                THEN r.resolved ELSE {}),
                            !.moves = [id \in DOMAIN @ |->
                                         IF id \in r.resolved THEN @[id] + r.rf.renames
                                         ELSE @[id]]]
    /\ lastRF' = IF r.rf.called THEN r.rf @@ [pre |-> r.pre, post |-> r.fs] ELSE lastRF
    /\ lastSF' = [ran |-> TRUE, filename |-> filename, res |-> r.res, exc |-> r.exc,
                  value |-> r.value, rf |-> r.rf, pre |-> r.pre, post |-> r.fs]

\* Lines 112-165: the target of the outermost call is a file
SingleFile ==
    /\ Running /\ Top.pc = "start" /\ Len(stack) = 1
    /\ Exists(files, dirs, Top.target) /\ ~IsDirOn(dirs, Top.target)
    /\ \E fault \in FaultChoices :
         LET r == rename_single(files, dirs, answers, Top.target, fault)
             d == IF r.exc # "" THEN RaiseOut(r.exc) ELSE Deliver(<<>>, r.value)
         IN  /\ fault # "none" => r.faulted
             /\ stack' = d.stack /\ outcome' = d.outcome
             /\ Observe(Top.target, r, 0)
    /\ UNCHANGED <<dirs, answers, check_subfolders, envFaults>>

\* Lines 88-93, for a listed name that is a file: rename(file) runs the
\* single-file branch and its result is appended
ProcessFile ==
    /\ Running /\ Top.pc = "files"
    /\ LET file == Join(Top.target, Top.pdf_files[Top.i])
       IN  /\ ~IsDirOn(dirs, file)
           /\ \E fault \in FaultChoices :
                LET r == rename_single(files, dirs, answers, file, fault)
                    d == IF r.exc # "" THEN RaiseOut(r.exc) ELSE Deliver(stack, r.value)
                IN  /\ fault # "none" => r.faulted
                    /\ stack' = d.stack /\ outcome' = d.outcome
                    /\ Observe(file, r, 1)
    /\ UNCHANGED <<dirs, answers, check_subfolders, envFaults>>

\* Lines 88-92, for a listed name that is a directory: rename(file) is a
\* call on a directory
DescendListed ==
    /\ Running /\ Top.pc = "files"
    /\ LET file == Join(Top.target, Top.pdf_files[Top.i])
       IN  /\ IsDirOn(dirs, file)
           /\ stack' = Append(stack, Frame(file))
    /\ walk' = [walk EXCEPT !.rcalls = @ + 1]
    /\ UNCHANGED <<Disk, outcome, lastRF, lastSF>>

\* Lines 97-103: the next subfolder is walked
DescendSubfolder ==
    /\ Running /\ Top.pc = "subs"
    /\ Len(Top.subfolders) # 0 /\ check_subfolders = TRUE
    /\ Top.i <= Len(Top.subfolders)
    /\ stack' = Append(stack, Frame(Top.subfolders[Top.i]))
    /\ walk' = [walk EXCEPT !.rcalls = @ + 1]
    /\ UNCHANGED <<Disk, outcome, lastRF, lastSF>>

\* Line 109: return files_processed, a name that is bound only when the
\* directory listed at least one pdf
ReturnDir ==
    /\ Running /\ Top.pc = "subs"
    /\ \/ Len(Top.subfolders) = 0
       \/ check_subfolders # TRUE
       \/ Top.i > Len(Top.subfolders)
    /\ LET d == IF Top.bound THEN Deliver(Front(stack), ListV(Top.files_processed))
                ELSE RaiseOut("UnboundLocalError")
       IN  stack' = d.stack /\ outcome' = d.outcome
    /\ UNCHANGED <<Disk, walk, lastRF, lastSF>>

Next ==
    \/ \E t \in Targets : Call(t)
    \/ NoSuchPath
    \/ EnterDir
    \/ SingleFile
    \/ ProcessFile
    \/ DescendListed
    \/ DescendSubfolder
    \/ ReturnDir

Spec == Init /\ [][Next]_vars

\* The same program in an environment that may fail a rename or remove a
\* file between the existence check and the rename
InitFault ==
    /\ \E present \in SUBSET (1..Len(Catalog)) :
         /\ Cardinality(present) <= MaxFiles
         /\ files = [id \in present |-> Catalog[id]]
         /\ dirs \in {t \in Trees : \A id \in present : Front(Catalog[id]) \in t}
         /\ answers \in {a \in [present -> UNION {Outcomes(id) : id \in present}] :
                           \A id \in present : a[id] \in Outcomes(id)}
    /\ check_subfolders \in BOOLEAN
    /\ envFaults = TRUE
    /\ stack = <<>>
    /\ outcome = [state |-> "idle", value |-> NoneV, exc |-> ""]
    /\ walk = [calls |-> 0, target |-> None, fs0 |-> files, renames |-> 0,
               resolved |-> {}, rcalls |-> 0, faults |-> 0,
               indexed |-> {}, before |-> {},
               moves |-> [id \in DOMAIN files |-> 0],
               listed |-> [d \in dirs |-> NotListed]]
    /\ lastRF = NoRF @@ [pre |-> files, post |-> files]
    /\ lastSF = NoSF(files)

SpecFault == InitFault /\ [][Next]_vars

-----------------------------------------------------------------------------
(* Vocabulary of the properties *)

Returned == outcome.state = "returned"
Finished == outcome.state \in {"returned", "raised"}

Last(p) == p[Len(p)]

\* The directory the current walk was called on
WalkDir == Resolve(walk.target)
WalksDir == walk.calls > 0 /\ outcome.state # "idle" /\ IsDirOn(dirs, walk.target)

\* pdf files (not directories) that are direct children of directory d
PdfIn(fs, d) ==
    {id \in DOMAIN fs : fs[id] # Gone /\ Front(fs[id]) = d /\ EndsWithPdf(Last(fs[id]))}

\* files anywhere below directory d
Below(fs, d) ==
    {id \in DOMAIN fs : fs[id] # Gone /\ Len(fs[id]) > Len(d)
                        /\ SubSeq(fs[id], 1, Len(d)) = d}

\* The dictionaries inside a returned value, nested lists included
RECURSIVE Dicts(_)
Dicts(v) ==
    IF v.kind = "dict" THEN {v.d}
    ELSE UNION {Dicts(v.items[j]) : j \in 1..Len(v.items)}

-----------------------------------------------------------------------------
(* C1 *)

\* The target as the caller wrote it is already what pathlib would print
PlainTarget == PureParts(walk.target) = walk.target

\* C1 (as claimed): when all N pdf files of the walked directory resolve to
\* the same base name and the walk has processed them all, the N files are
\* still there and are named base.pdf, base (2).pdf, ..., base (N).pdf.
\* Stated for targets written plainly, where the comparison of line 142 is
\* not misled by the spelling of the path (C2).
C1_CollisionSafety ==
    LET S == PdfIn(walk.fs0, WalkDir)
        N == Cardinality(S)
    IN  ( /\ WalksDir /\ Finished /\ PlainTarget
          /\ N >= 1
          /\ \A id \in S : answers[id] = Found("base")
          /\ S \subseteq walk.resolved )
        => /\ \A id \in S : files[id] # Gone /\ Front(files[id]) = WalkDir
           /\ {Last(files[id]) : id \in S} = {Name("base", k, ".pdf") : k \in 1..N}

-----------------------------------------------------------------------------
(* C2 *)

\* File id sits at its canonical name: the resolver finds its title and the
\* file is named <title><lower-cased extension>
Canonical(fs, id) ==
    /\ HasBibtex(answers[id]) /\ ~answers[id].raises
    /\ Last(fs[id]) = Name(answers[id].metadata, 1, Lower(Last(fs[id]).ext))
    /\ Last(fs[id]).ext = Lower(Last(fs[id]).ext)

\* C2 (as claimed): a walk of a directory whose pdf files are all at their
\* canonical names renames nothing and reports path_new = path_original for
\* each file, however the caller writes the directory.
C2_Idempotence ==
    ( /\ WalksDir /\ Finished
      /\ PdfIn(walk.fs0, WalkDir) # {}
      /\ \A id \in Below(walk.fs0, WalkDir) :
            EndsWithPdf(Last(walk.fs0[id])) => Canonical(walk.fs0, id) )
    => /\ walk.renames = 0
       /\ files = walk.fs0
       /\ Returned => \A d \in Dicts(outcome.value) : d.path_new = d.path_original

-----------------------------------------------------------------------------
(* C3 *)

\* C3 (as claimed): in a directory without subdirectories where the resolver
\* raises for one pdf file and finds the others, the walk returns one record
\* per file; the errored file's record has path_new None and the others are
\* renamed.
C3_PartialFailureIsolation ==
    LET S == PdfIn(walk.fs0, WalkDir)
        bad == {id \in S : answers[id].raises}
    IN  ( /\ WalksDir /\ Finished
          /\ ChildDirs(dirs, WalkDir) = {}
          /\ Cardinality(bad) = 1 /\ S # bad
          /\ \A id \in S \ bad : answers[id] = Found("base") )
        => /\ Returned
           /\ outcome.value.kind = "list"
           /\ Len(outcome.value.items) = Cardinality(S)
           /\ \A id \in S :
                \E j \in 1..Len(outcome.value.items) :
                   LET v == outcome.value.items[j]
                   IN  /\ v.kind = "dict"
                       /\ Resolve(v.d.path_original) = walk.fs0[id]
                       /\ (v.d.path_new = None) <=> (id \in bad)

-----------------------------------------------------------------------------
(* C4 *)

\* Files that were inside a subdirectory of the walked directory at the call
InSubdirs == {id \in Below(walk.fs0, WalkDir) : Front(walk.fs0[id]) # WalkDir}

\* Does the resolver raise for some pdf file below directory d
RaisesBelow(fs, d) ==
    \E id \in Below(fs, d) : EndsWithPdf(Last(fs[id])) /\ answers[id].raises

\* The paths the claimed result lists, for the directory written as target
\* (ending in the separator): its own pdf files in the order the walk listed
\* them, then each subdirectory's paths in the order listed, depth-first
RECURSIVE ClaimedOrder(_)
ClaimedOrder(target) ==
    LET seen == walk.listed[Resolve(target)]
        own  == SelectSeq(seen.pdf_files, LAMBDA n : ~IsDirOn(dirs, Join(target, n)))
        subs == seen.subfolders
        RECURSIVE Cat(_)
        Cat(j) == IF j > Len(subs) THEN <<>>
                  ELSE ClaimedOrder(AddSep(subs[j])) \o Cat(j + 1)
    IN  [j \in 1..Len(own) |-> Join(target, own[j])]
        \o (IF check_subfolders THEN Cat(1) ELSE <<>>)

\* The pdf files the claimed result reports
ClaimedFiles ==
    {id \in PdfIn(walk.fs0, WalkDir) \cup (IF check_subfolders THEN InSubdirs ELSE {}) :
        EndsWithPdf(Last(walk.fs0[id]))}

\* C4 (as claimed): whatever the tree below it, a walk of a directory that
\* holds pdf files, for none of which the resolver raises, returns a flat list
\* with one record per pdf file under the target, own files first in listing
\* order, then the subdirectories' records depth-first in listing order.
C4_FlatOrderedResult ==
    ( /\ WalksDir /\ Finished
      /\ PdfIn(walk.fs0, WalkDir) # {}
      /\ ~RaisesBelow(walk.fs0, WalkDir) )
    => /\ Returned
       /\ outcome.value.kind = "list"
       /\ \A j \in 1..Len(outcome.value.items) : outcome.value.items[j].kind = "dict"
       /\ [j \in 1..Len(outcome.value.items) |-> outcome.value.items[j].d.path_original]
            = ClaimedOrder(IF EndsWithSep(walk.target) THEN walk.target
                           ELSE AddSep(walk.target))
       /\ {Resolve(d.path_original) : d \in Dicts(outcome.value)}
            = {walk.fs0[id] : id \in ClaimedFiles}

-----------------------------------------------------------------------------
(* C5 *)

\* C5 (as claimed): with recursion off, a walk of a directory that has no
\* direct child whose name ends in .pdf returns the empty list, calls
\* rename() on nothing and renames nothing.
C5_EmptyDirectory ==
    ( /\ WalksDir /\ Finished
      /\ ~check_subfolders
      /\ \A n \in ChildFiles(walk.fs0, WalkDir) \cup ChildDirs(dirs, WalkDir) :
            ~EndsWithPdf(n) )
    => /\ Returned
       /\ outcome.value = ListV(<<>>)
       /\ walk.rcalls = 0
       /\ walk.renames = 0

-----------------------------------------------------------------------------
(* C6 *)

\* Every record built so far by the current walk
RecordsSoFar ==
    UNION ( {Dicts(outcome.value)}
            \cup {Dicts(ListV(stack[j].files_processed)) : j \in 1..Len(stack)} )

\* C6 (as claimed): with recursion off, no file inside a subdirectory of the
\* walked directory is resolved, renamed or reported, whatever the
\* subdirectory is called.
C6_SubfoldersSkipped ==
    (WalksDir /\ ~check_subfolders)
    => \A id \in InSubdirs :
          /\ id \notin walk.resolved
          /\ files[id] = walk.fs0[id]
          /\ \A d \in RecordsSoFar : Resolve(d.path_original) # walk.fs0[id]

-----------------------------------------------------------------------------
(* C10 *)

\* C10 (as claimed): a file that the previous walk renamed to an indexed
\* name base (k).pdf, k >= 2, is not renamed by the next walk of the same
\* directory: it is where it was when that walk was called.  Stated for
\* targets written plainly, where base.pdf was taken by another file.
C10_RerunKeepsIndexedNames ==
    (WalksDir /\ Finished /\ PlainTarget)
    => \A id \in walk.before : files[id] = walk.fs0[id]

-----------------------------------------------------------------------------
(* C7 *)

\* The i-th candidate of the last rename_file call
Candidate(i) == WithSuffix(lastRF.new_path, i, lastRF.ext)
TakenBefore(i) == Exists(lastRF.pre, dirs, Candidate(i))

\* C7: a rename_file call made by rename() on an existing old_path, when os.rename does not
\* fail, returns after exactly one rename; it returns base+ext when that was
\* free, otherwise base (k)+ext for the smallest k >= 2 that was free;
\* afterwards old_path is gone, the returned path holds the file that was at
\* old_path, and every other file is where it was.
C7_RenameFile ==
    (lastRF.called /\ Exists(lastRF.pre, dirs, lastRF.old) /\ lastRF.exc # "OSError")
    => /\ lastRF.exc = ""
       /\ lastRF.renames = 1
       /\ ~TakenBefore(1) => lastRF.ret = Candidate(1)
       /\ TakenBefore(1) =>
            \E k \in 2..(Cardinality(DOMAIN files) + 2) :
               /\ lastRF.ret = Candidate(k)
               /\ ~TakenBefore(k)
               /\ \A j \in 2..(k - 1) : TakenBefore(j)
       /\ ~Exists(lastRF.post, dirs, lastRF.old)
       /\ Exists(lastRF.post, dirs, lastRF.ret)
       /\ \A id \in DOMAIN files :
            lastRF.post[id] = IF lastRF.pre[id] = Resolve(lastRF.old)
                              THEN Resolve(lastRF.ret) ELSE lastRF.pre[id]

\* A call that found base.pdf and base (2).pdf taken and renamed to base (3).pdf
C7_Witness ==
    /\ lastRF.called /\ lastRF.renames = 1
    /\ Last(lastRF.ret).k = 3
    /\ lastRF.post # lastRF.pre

-----------------------------------------------------------------------------
(* C8 *)

\* C8: a record of the single-file branch has path_new only if it has both
\* identifier and metadata; when the resolver found no identifier or no
\* metadata, path_new is None and that run renamed nothing.
C8_PathNewNeedsBibtex ==
    (lastSF.ran /\ lastSF.exc = "")
    => LET d == lastSF.value.d
       IN  /\ lastSF.value.kind = "dict"
           /\ d.path_new # None => Truthy(d.identifier) /\ Truthy(d.metadata)
           /\ (~Truthy(lastSF.res.identifier) \/ ~Truthy(lastSF.res.metadata))
                => /\ d.path_new = None
                   /\ d.path_new # d.path_original
                   /\ ~lastSF.rf.called
                   /\ lastSF.post = lastSF.pre

\* A run on a file with an identifier but no metadata, reported with path_new None
C8_Witness ==
    /\ lastSF.ran /\ lastSF.exc = ""
    /\ lastSF.res = NoBibtex
    /\ lastSF.value.d.identifier = NoBibtex.identifier
    /\ lastSF.value.d.path_new = None

-----------------------------------------------------------------------------
(* C9 *)

\* C9: when the resolver found identifier and metadata and rename_file
\* raised (old_path gone by then, or os.rename failed), the single-file
\* branch raises nothing and returns a record with path_new None that keeps
\* the resolver's identifier, identifier_type and metadata; that run renamed
\* nothing.
C9_RenameFailureContained ==
    (lastSF.ran /\ lastSF.rf.called /\ lastSF.rf.exc # "")
    => LET d == lastSF.value.d
       IN  /\ lastSF.exc = ""
           /\ lastSF.value.kind = "dict"
           /\ d.path_new = None
           /\ d.path_original = lastSF.filename
           /\ d.identifier = lastSF.res.identifier
           /\ d.identifier_type = lastSF.res.identifier_type
           /\ d.metadata = lastSF.res.metadata
           /\ lastSF.rf.renames = 0
           /\ lastSF.post = lastSF.pre

\* Inside a walk, the file is gone by the time rename_file looks at it; the
\* record keeps the metadata and has path_new None
C9_Witness ==
    /\ lastSF.ran /\ lastSF.rf.called
    /\ lastSF.rf.exc = "ValueError"
    /\ lastSF.value.d.metadata = "base"
    /\ lastSF.value.d.path_new = None
    /\ Len(stack) > 0

-----------------------------------------------------------------------------
(* C11 *)

\* The files that are direct children of directory d
FilesIn(fs, d) == {id \in DOMAIN fs : fs[id] # Gone /\ Front(fs[id]) = d}

\* Every rename of the current walk went to a path that did not exist just
\* before it
FreshTargets ==
    (lastRF.called /\ lastRF.renames = 1)
    => /\ ~Exists(lastRF.pre, dirs, lastRF.ret)
       /\ PathParent(lastRF.ret) = PathParent(PureParts(lastRF.old))

\* Every directory holds as many files as when the walk was called
CountsKept ==
    \A d \in dirs : Cardinality(FilesIn(files, d)) = Cardinality(FilesIn(walk.fs0, d))

\* No file was deleted and no two files ended at one path
NothingLost ==
    /\ \A id \in DOMAIN files : files[id] # Gone
    /\ \A id1, id2 \in DOMAIN files : files[id1] = files[id2] => id1 = id2

\* No file was renamed more than once by the current walk
OneRenamePerPdf == \A id \in DOMAIN files : walk.moves[id] <= 1

\* A file reported with path_new None or path_new = path_original is at its
\* path_original, and a file the walk did not rename is where it was
UnrenamedStay ==
    /\ \A d \in RecordsSoFar :
          (d.path_new = None \/ d.path_new = d.path_original)
          => IsFileOn(files, d.path_original)
    /\ \A id \in DOMAIN files : walk.moves[id] = 0 => files[id] = walk.fs0[id]

\* C11 (as claimed): during and after one walk in an undisturbed tree, every
\* rename went to a path that did not exist, each directory holds as many
\* files as before the walk, no file was overwritten or deleted, no pdf file
\* was renamed more than once, and every file reported with path_new None or
\* path_new = path_original is still at its original path.
C11_Conservation ==
    (walk.calls > 0 /\ ~envFaults)
    => /\ FreshTargets
       /\ CountsKept
       /\ NothingLost
       /\ OneRenamePerPdf
       /\ UnrenamedStay

====
